---- MODULE Spec2Model ----
(***************************************************************************)
(* UserService: the Cognito identity broker (UserRepository), its error    *)
(* normaliser, secret-hash helper and attribute mapper, with the routes of  *)
(* the user router and the two exception handlers of the application.      *)
(*                                                                         *)
(* Text values whose characters matter (usernames, e-mail addresses,       *)
(* client id, client secret, attribute values) are sequences of one        *)
(* character strings, so that concatenation, split("@") and lower() are    *)
(* computed.  Python's None is the one-element sequence None, which is no  *)
(* text of characters.  Opaque values (passwords, codes, tokens) are       *)
(* strings.  A character of an e-mail address stands for a valid part.     *)
(* A keyword-argument request is a function from the argument names that   *)
(* are present to their values, so an omitted field is absent from DOMAIN. *)
(***************************************************************************)
EXTENDS Integers, Sequences, FiniteSets, TLC

VARIABLES
    client_id,      \* self.client_id
    client_secret,  \* self.client_secret (None when COGNITO_CLIENT_SECRET is unset)
    user_pool_id,   \* self.user_pool_id
    pc,             \* "idle", "calling" while a provider call is in flight, "done"
    op,             \* the operation invoked last
    args,           \* its arguments
    calls,          \* provider calls issued by this invocation, in order
    replies,        \* the provider's answers to them, in order
    hashed,         \* usernames handed to _get_secret_hash by this invocation
    normalized,     \* passes through _handle_cognito_error by this invocation
    log,            \* error-severity log entries written by this invocation
    outcome,        \* what the invocation returned or raised
    http,           \* the HTTP response of the route that made the invocation
    other           \* the frame of a second request thread, suspended

vars == <<client_id, client_secret, user_pool_id, pc, op, args, calls, replies,
          hashed, normalized, log, outcome, http, other>>

config == <<client_id, client_secret, user_pool_id>>

-----------------------------------------------------------------------------
(* Python values *)

None == <<"None">>

Truthy(s) == s # None /\ s # <<>>

Get(d, k, default) == IF k \in DOMAIN d THEN d[k] ELSE default

RECURSIVE SplitAt0(_)
SplitAt0(s) ==
    IF s = <<>> \/ Head(s) = "@" THEN <<>>
    ELSE <<Head(s)>> \o SplitAt0(Tail(s))

LowerChar(c) ==
    CASE c = "T" -> "t" [] c = "R" -> "r" [] c = "U" -> "u" [] c = "E" -> "e"
      [] c = "A" -> "a" [] c = "B" -> "b" [] OTHER -> c

\* compares without folding case
Lower_as_is(s) == s

Lower(s) == [i \in 1..Len(s) |-> LowerChar(s[i])]

-----------------------------------------------------------------------------
(* Input domains *)

MaxUsers == 1

PoolId == "pool-1"

ClientIds == {<<"c">>}

ClientSecrets == {None, <<>>, <<"s">>}

Usernames == {<<"a", "@", "b">>, <<"A", "@", "b">>}

Emails == {<<"a", "@", "b">>, <<"b", "@", "a">>}

\* UserCreate.password / UserLogin.password: min_length 6
Password == "Secret1!"

ConfirmationCodes == {"123456"}

AccessTokens == {"at-1"}

RefreshTokens == {"rt-1"}

KnownCodes == {
    "UsernameExistsException", "UserNotFoundException", "UserNotConfirmedException",
    "NotAuthorizedException", "InvalidParameterException", "CodeMismatchException",
    "ExpiredCodeException", "TooManyFailedAttemptsException", "TooManyRequestsException",
    "LimitExceededException", "ResourceNotFoundException"}

OtherCodes == {"InvalidPasswordException", "InternalErrorException"}

ProviderMessages == {"m1", "m2"}

\* botocore ClientError: error.response["Error"]["Code" / "Message"]
ClientErrors == [Code : KnownCodes \cup OtherCodes, Message : ProviderMessages]

-----------------------------------------------------------------------------
(* Results of an invocation *)

Return(v) == [kind |-> "return", value |-> v]
Raise(e) == [kind |-> "raise", exc |-> e]
Pending == [kind |-> "pending"]

AppException(message, status_code) ==
    [type |-> "AppException", message |-> message, status_code |-> status_code]

IsAppException(o) == o.kind = "raise" /\ o.exc.type = "AppException"

-----------------------------------------------------------------------------
(* _get_secret_hash *)

Utf8(s) == <<"utf-8", s>>
HmacSha256(key, msg) == <<"hmac-sha256", key, msg>>
B64Encode(dig) == <<"base64", dig>>

\* tests "is None" where the code tests falsiness: an empty secret is hashed
SecretHashOf_is_none(secret, cid, username) ==
    IF secret = None THEN None
    ELSE B64Encode(HmacSha256(Utf8(secret), Utf8(username \o cid)))

SecretHashOf(secret, cid, username) ==
    IF ~Truthy(secret) THEN None
    ELSE B64Encode(HmacSha256(Utf8(secret), Utf8(username \o cid)))

_get_secret_hash(username) == SecretHashOf(client_secret, client_id, username)

-----------------------------------------------------------------------------
(* _handle_cognito_error *)

ErrorLog(error, context) ==
    << [level |-> "error", context |-> context, code |-> error.Code,
        message |-> error.Message],
       [level |-> "error", full_response |-> error] >>

\* the TooManyRequestsException arm is missing and falls to the default
handle_cognito_error_missing_arm(error, context) ==
    LET code == error.Code
        message == error.Message
    IN  CASE code = "UsernameExistsException" ->
               AppException(<<"User account already exists">>, 409)
          [] code = "UserNotFoundException" ->
               AppException(<<"User not found">>, 404)
          [] code = "UserNotConfirmedException" ->
               AppException(<<"Please verify your email before logging in. Check your inbox for the confirmation code.">>, 403)
          [] code = "NotAuthorizedException" ->
               AppException(<<"Authentication failed: ", message>>, 401)
          [] code = "InvalidParameterException" ->
               AppException(<<"Invalid parameter: ", message>>, 400)
          [] code = "CodeMismatchException" ->
               AppException(<<"Invalid verification code. Please try again.">>, 400)
          [] code = "ExpiredCodeException" ->
               AppException(<<"Verification code has expired. Please request a new one.">>, 400)
          [] code = "TooManyFailedAttemptsException" ->
               AppException(<<"Too many failed attempts, please try again later">>, 429)
          [] code = "LimitExceededException" ->
               AppException(<<"Attempt limit exceeded, please try after some time">>, 429)
          [] code = "ResourceNotFoundException" ->
               AppException(<<"User pool or app client not found. Check your configuration.">>, 404)
          [] OTHER ->
               AppException(<<"Cognito error [", code, "]: ", message>>, 500)

_handle_cognito_error(error, context) ==
    LET code == error.Code
        message == error.Message
    IN  CASE code = "UsernameExistsException" ->
               AppException(<<"User account already exists">>, 409)
          [] code = "UserNotFoundException" ->
               AppException(<<"User not found">>, 404)
          [] code = "UserNotConfirmedException" ->
               AppException(<<"Please verify your email before logging in. Check your inbox for the confirmation code.">>, 403)
          [] code = "NotAuthorizedException" ->
               AppException(<<"Authentication failed: ", message>>, 401)
          [] code = "InvalidParameterException" ->
               AppException(<<"Invalid parameter: ", message>>, 400)
          [] code = "CodeMismatchException" ->
               AppException(<<"Invalid verification code. Please try again.">>, 400)
          [] code = "ExpiredCodeException" ->
               AppException(<<"Verification code has expired. Please request a new one.">>, 400)
          [] code = "TooManyFailedAttemptsException" ->
               AppException(<<"Too many failed attempts, please try again later">>, 429)
          [] code = "TooManyRequestsException" ->
               AppException(<<"Too many requests, please slow down">>, 429)
          [] code = "LimitExceededException" ->
               AppException(<<"Attempt limit exceeded, please try after some time">>, 429)
          [] code = "ResourceNotFoundException" ->
               AppException(<<"User pool or app client not found. Check your configuration.">>, 404)
          [] OTHER ->
               AppException(<<"Cognito error [", code, "]: ", message>>, 500)

-----------------------------------------------------------------------------
(* Provider replies *)

OptField(k, S) == {<<>>} \cup {k :> v : v \in S}

CodeDelivery == [DeliveryMedium |-> <<"EMAIL">>, Destination |-> <<"a***@b">>]

DeliveryReplies ==
    {a @@ b : a \in OptField("UserConfirmed", BOOLEAN),
              b \in OptField("CodeDeliveryDetails", {CodeDelivery})}

AuthTokens == [AccessToken |-> "at-2", IdToken |-> "it-2", TokenType |-> "Bearer",
               ExpiresIn |-> "3600"]

\* USER_PASSWORD flows answer with tokens or with a challenge
PasswordAuthReplies ==
    {[AuthenticationResult |-> AuthTokens @@ ("RefreshToken" :> "rt-2")],
     [ChallengeName |-> "NEW_PASSWORD_REQUIRED"]}

RefreshAuthReplies ==
    {[AuthenticationResult |-> AuthTokens @@ t] : t \in OptField("RefreshToken", {"rt-2"})}

EmptyReply == <<>>

InternalIds == {<<"u">>}

True_ == <<"T", "R", "U", "E">>
False_ == <<"f", "a", "l", "s", "e">>

\* the attribute list of a provider user, as the dict the comprehension builds
AttributeBags ==
    {a @@ b @@ c @@ d @@ e :
        a \in OptField("name", {<<>>, <<"b">>}),
        b \in {"preferred_username" :> v : v \in {<<>>, <<"p">>}},
        c \in OptField("email", {<<"a", "@", "b">>}),
        d \in OptField("email_verified", {True_, False_}),
        e \in {<<>>, ("phone_number" :> <<"1">>) @@ ("custom:profile_image_url" :> <<"i">>)}}

\* further spellings of the email_verified attribute, for the one-user lookups
VerifiedSpellings == {<<"t", "r", "u", "e">>, <<"T", "r", "u", "e">>, <<"1">>}

SpelledBags ==
    {("preferred_username" :> <<"p">>) @@ ("email" :> <<"a", "@", "b">>)
        @@ ("email_verified" :> v) : v \in VerifiedSpellings}

ListedUsers ==
    {[Username |-> u, Attributes |-> bag] @@ en :
        u \in InternalIds, bag \in AttributeBags, en \in OptField("Enabled", BOOLEAN)}

UserPages == UNION {[1..n -> ListedUsers] : n \in 0..MaxUsers}

ListUsersReplies ==
    {[Users |-> page] @@ t : page \in UserPages, t \in OptField("PaginationToken", {<<"t2">>})}

AdminGetUserReplies ==
    {[Username |-> u, UserAttributes |-> bag] @@ en :
        u \in InternalIds, bag \in AttributeBags \cup SpelledBags,
        en \in OptField("Enabled", BOOLEAN)}

GetUserReplies == [Username : InternalIds, UserAttributes : AttributeBags \cup SpelledBags]

DescribePoolReplies == {[UserPool |-> [Name |-> "pool"]]}

DescribeClientReplies ==
    {[UserPoolClient |-> [ClientName |-> "app"] @@ f] :
        f \in OptField("ExplicitAuthFlows",
                       {{}, {"ADMIN_NO_SRP_AUTH"}, {"ALLOW_REFRESH_TOKEN_AUTH"}})}

-----------------------------------------------------------------------------
(* _map_user and the UserOut schema *)

Or(a, b) == IF Truthy(a) THEN a ELSE b

Count(s, c) == Cardinality({i \in 1..Len(s) : s[i] = c})

\* EmailStr: one "@" with text on both sides
ValidEmail(s) ==
    /\ s # None
    /\ Count(s, "@") = 1
    /\ s[1] # "@"
    /\ s[Len(s)] # "@"

ValidationError(field) == [type |-> "ValidationError", field |-> field]

UserOut(fields) ==
    IF ValidEmail(fields.email)
    THEN [ok |-> TRUE, value |-> fields]
    ELSE [ok |-> FALSE, exc |-> ValidationError("email")]

UtcNow == "utcnow"

_map_user(user) ==
    LET attrs == Get(user, "Attributes", <<>>)
        username ==
            Or(Or(Or(Get(attrs, "name", None),
                     Get(attrs, "preferred_username", None)),
                  SplitAt0(Get(attrs, "email", <<>>))),
               Get(user, "Username", <<>>))
    IN  UserOut([email |-> Get(attrs, "email", <<>>),
                 username |-> username,
                 phone_number |-> Get(attrs, "phone_number", <<>>),
                 profile_image_url |-> Get(attrs, "custom:profile_image_url", <<>>),
                 is_active |-> Get(user, "Enabled", TRUE),
                 email_verified |->
                     Lower(Get(attrs, "email_verified", False_)) = <<"t", "r", "u", "e">>,
                 created_at |-> UtcNow,
                 updated_at |-> UtcNow])

-----------------------------------------------------------------------------
(* Operation inputs *)

UserCreates ==
    [email : Emails, username : {None, <<>>, <<"b">>}, password : {Password},
     phone_number : {None, <<"1">>}, profile_image_url : {None, <<>>, <<"i">>}]

\* UserUpdate.dict(exclude_unset=True): the fields the caller set, None included
UserUpdates ==
    {a @@ b @@ c @@ d @@ e :
        a \in OptField("username", {None, <<>>, <<"n">>}),
        b \in OptField("email", {None, <<"b", "@", "a">>}),
        c \in OptField("phone_number", {None, <<"1">>}),
        d \in OptField("profile_image_url", {None, <<"i">>}),
        e \in OptField("updated_at", {<<"2025-10-15">>})}

UserUpdateFields ==
    <<"username", "email", "phone_number", "profile_image_url", "updated_at">>

DefaultLimit == 20
LimitCap == 60

\* the query string of GET /users/: limit and token, each sent or not
ListQueries ==
    {a @@ b : a \in OptField("limit", {0, LimitCap, LimitCap + 1}),
              b \in OptField("token", {<<"t1">>})}

-----------------------------------------------------------------------------
(* The provider call each operation builds.  hashed lists the usernames it  *)
(* hands to _get_secret_hash while building it.                            *)

Call(api, params, hashed_) == [api |-> api, params |-> params, hashed |-> hashed_]

signup_call(user_data) ==
    LET user_attributes ==
            <<[Name |-> "email", Value |-> user_data.email]>>
            \o (IF Truthy(user_data.username)
                THEN <<[Name |-> "name", Value |-> user_data.username]>>
                ELSE <<[Name |-> "name", Value |-> SplitAt0(user_data.email)]>>)
            \o (IF Truthy(user_data.phone_number)
                THEN <<[Name |-> "phone_number", Value |-> user_data.phone_number]>>
                ELSE <<>>)
            \o (IF Truthy(user_data.profile_image_url)
                THEN <<[Name |-> "custom:profile_image_url",
                        Value |-> user_data.profile_image_url]>>
                ELSE <<>>)
        signup_params ==
            [ClientId |-> client_id, Username |-> user_data.email,
             Password |-> user_data.password, UserAttributes |-> user_attributes]
    IN  IF Truthy(client_secret)
        THEN Call("sign_up",
                  signup_params @@ ("SecretHash" :> _get_secret_hash(user_data.email)),
                  <<user_data.email>>)
        ELSE Call("sign_up", signup_params, <<>>)

confirm_email_call(email, code) ==
    LET confirm_params ==
            [ClientId |-> client_id, Username |-> email, ConfirmationCode |-> code]
    IN  IF Truthy(client_secret)
        THEN Call("confirm_sign_up",
                  confirm_params @@ ("SecretHash" :> _get_secret_hash(email)), <<email>>)
        ELSE Call("confirm_sign_up", confirm_params, <<>>)

resend_confirmation_code_call(email) ==
    LET resend_params == [ClientId |-> client_id, Username |-> email]
    IN  IF Truthy(client_secret)
        THEN Call("resend_confirmation_code",
                  resend_params @@ ("SecretHash" :> _get_secret_hash(email)), <<email>>)
        ELSE Call("resend_confirmation_code", resend_params, <<>>)

\* hashes a case-normalised username while submitting the one it was given
login_call_lowercased(username, password) ==
    LET auth_params == [USERNAME |-> username, PASSWORD |-> password]
        Auth(p) == [UserPoolId |-> user_pool_id, ClientId |-> client_id,
                    AuthFlow |-> "ADMIN_NO_SRP_AUTH", AuthParameters |-> p]
    IN  IF Truthy(client_secret)
        THEN Call("admin_initiate_auth",
                  Auth(auth_params @@ ("SECRET_HASH" :> _get_secret_hash(Lower(username)))),
                  <<Lower(username)>>)
        ELSE Call("admin_initiate_auth", Auth(auth_params), <<>>)

login_call(username, password) ==
    LET auth_params == [USERNAME |-> username, PASSWORD |-> password]
        Auth(p) == [UserPoolId |-> user_pool_id, ClientId |-> client_id,
                    AuthFlow |-> "ADMIN_NO_SRP_AUTH", AuthParameters |-> p]
    IN  IF Truthy(client_secret)
        THEN Call("admin_initiate_auth",
                  Auth(auth_params @@ ("SECRET_HASH" :> _get_secret_hash(username))),
                  <<username>>)
        ELSE Call("admin_initiate_auth", Auth(auth_params), <<>>)

logout_call(access_token) ==
    Call("global_sign_out", [AccessToken |-> access_token], <<>>)

refresh_token_call(refresh_token) ==
    LET auth_params == [REFRESH_TOKEN |-> refresh_token]
    IN  Call("admin_initiate_auth",
             [UserPoolId |-> user_pool_id, ClientId |-> client_id,
              AuthFlow |-> "REFRESH_TOKEN_AUTH", AuthParameters |-> auth_params],
             <<>>)

forgot_password_call(email) ==
    LET forgot_params == [ClientId |-> client_id, Username |-> email]
    IN  IF Truthy(client_secret)
        THEN Call("forgot_password",
                  forgot_params @@ ("SecretHash" :> _get_secret_hash(email)), <<email>>)
        ELSE Call("forgot_password", forgot_params, <<>>)

confirm_forgot_password_call(email, code, new_password) ==
    LET confirm_params ==
            [ClientId |-> client_id, Username |-> email, ConfirmationCode |-> code,
             Password |-> new_password]
    IN  IF Truthy(client_secret)
        THEN Call("confirm_forgot_password",
                  confirm_params @@ ("SecretHash" :> _get_secret_hash(email)), <<email>>)
        ELSE Call("confirm_forgot_password", confirm_params, <<>>)

describe_user_pool_call ==
    Call("describe_user_pool", [UserPoolId |-> user_pool_id], <<>>)

describe_user_pool_client_call ==
    Call("describe_user_pool_client",
         [UserPoolId |-> user_pool_id, ClientId |-> client_id], <<>>)

get_current_user_call(access_token) ==
    Call("get_user", [AccessToken |-> access_token], <<>>)

get_all_call(limit, pagination_token) ==
    LET params == [UserPoolId |-> user_pool_id, Limit |-> limit]
    IN  IF Truthy(pagination_token)
        THEN Call("list_users", params @@ ("PaginationToken" :> pagination_token), <<>>)
        ELSE Call("list_users", params, <<>>)

get_by_username_call(username) ==
    Call("admin_get_user", [UserPoolId |-> user_pool_id, Username |-> username], <<>>)

\* the username field goes out under its own name
name_mapping_username ==
    ("profile_image_url" :> "custom:profile_image_url") @@ ("phone_number" :> "phone_number")
    @@ ("email" :> "email") @@ ("username" :> "username")

name_mapping ==
    ("profile_image_url" :> "custom:profile_image_url") @@ ("phone_number" :> "phone_number")
    @@ ("email" :> "email") @@ ("username" :> "name")

Str(value) == value

\* skips every falsy value ("if not value"), the empty string included
RECURSIVE update_attributes_skip_falsy(_, _)
update_attributes_skip_falsy(user_data, keys) ==
    IF keys = <<>> THEN <<>>
    ELSE LET key == Head(keys)
             rest == update_attributes_skip_falsy(user_data, Tail(keys))
         IN  IF key \notin DOMAIN user_data THEN rest
             ELSE IF ~Truthy(user_data[key]) THEN rest
             ELSE IF key \in DOMAIN name_mapping
                  THEN <<[Name |-> name_mapping[key], Value |-> Str(user_data[key])]>> \o rest
                  ELSE rest

RECURSIVE update_attributes(_, _)
update_attributes(user_data, keys) ==
    IF keys = <<>> THEN <<>>
    ELSE LET key == Head(keys)
             rest == update_attributes(user_data, Tail(keys))
         IN  IF key \notin DOMAIN user_data THEN rest
             ELSE IF user_data[key] = None THEN rest
             ELSE IF key \in DOMAIN name_mapping
                  THEN <<[Name |-> name_mapping[key], Value |-> Str(user_data[key])]>> \o rest
                  ELSE rest

update_call(username, user_data) ==
    Call("admin_update_user_attributes",
         [UserPoolId |-> user_pool_id, Username |-> username,
          UserAttributes |-> update_attributes(user_data, UserUpdateFields)], <<>>)

delete_call(username) ==
    Call("admin_delete_user", [UserPoolId |-> user_pool_id, Username |-> username], <<>>)

-----------------------------------------------------------------------------
(* What each operation does with the provider's answer *)

Delivery(response, field) ==
    Get(Get(response, "CodeDeliveryDetails", <<>>), field, None)

\* returns the username as submitted, without the fallback to the email
signup_return_submitted_username(user_data, response) ==
    Return([message |-> "User registered successfully. Please check your email for the verification code.",
            email |-> user_data.email,
            username |-> user_data.username,
            user_confirmed |-> Get(response, "UserConfirmed", FALSE),
            code_delivery_medium |-> Delivery(response, "DeliveryMedium"),
            code_delivery_destination |-> Delivery(response, "Destination")])

signup_return(user_data, response) ==
    Return([message |-> "User registered successfully. Please check your email for the verification code.",
            email |-> user_data.email,
            username |-> Or(user_data.username, SplitAt0(user_data.email)),
            user_confirmed |-> Get(response, "UserConfirmed", FALSE),
            code_delivery_medium |-> Delivery(response, "DeliveryMedium"),
            code_delivery_destination |-> Delivery(response, "Destination")])

confirm_email_return ==
    Return([message |-> "Email confirmed successfully. You can now login."])

resend_confirmation_code_return(response) ==
    Return([message |-> "Verification code has been resent to your email.",
            code_delivery_medium |-> Delivery(response, "DeliveryMedium"),
            code_delivery_destination |-> Delivery(response, "Destination")])

KeyError(key) == [type |-> "KeyError", key |-> key]

login_return(response) ==
    IF "AuthenticationResult" \notin DOMAIN response
    THEN Raise(KeyError("AuthenticationResult"))
    ELSE LET tokens == response.AuthenticationResult
         IN  IF "RefreshToken" \notin DOMAIN tokens
             THEN Raise(KeyError("RefreshToken"))
             ELSE Return([status |-> "SUCCESS",
                          access_token |-> tokens.AccessToken,
                          refresh_token |-> tokens.RefreshToken,
                          id_token |-> tokens.IdToken,
                          token_type |-> tokens.TokenType,
                          expires_in |-> tokens.ExpiresIn])

logout_return == Return([message |-> "User logged out successfully"])

\* copies the refresh token through as login does
refresh_token_return_with_refresh(response) ==
    LET tokens == response.AuthenticationResult
    IN  Return([status |-> "SUCCESS",
                access_token |-> tokens.AccessToken,
                refresh_token |-> Get(tokens, "RefreshToken", "rt-1"),
                id_token |-> tokens.IdToken,
                token_type |-> tokens.TokenType,
                expires_in |-> tokens.ExpiresIn])

refresh_token_return(response) ==
    LET tokens == response.AuthenticationResult
    IN  Return([status |-> "SUCCESS",
                access_token |-> tokens.AccessToken,
                id_token |-> tokens.IdToken,
                token_type |-> tokens.TokenType,
                expires_in |-> tokens.ExpiresIn])

forgot_password_return(response) ==
    Return([message |-> "Password reset code has been sent to your email.",
            code_delivery_medium |-> Delivery(response, "DeliveryMedium"),
            code_delivery_destination |-> Delivery(response, "Destination")])

confirm_forgot_password_return ==
    Return([message |-> "Password has been reset successfully. You can now login with your new password."])

test_connection_return(pool_info, client_info) ==
    LET auth_flows == Get(client_info.UserPoolClient, "ExplicitAuthFlows", {})
    IN  IF "ADMIN_NO_SRP_AUTH" \notin auth_flows
        THEN Return([status |-> "error",
                     message |-> <<"ADMIN_NO_SRP_AUTH not enabled in app client">>,
                     required_action |-> "Enable ALLOW_ADMIN_USER_PASSWORD_AUTH in Cognito app client settings"])
        ELSE Return([status |-> "success",
                     message |-> <<"Cognito connection successful">>,
                     user_pool |-> pool_info.UserPool.Name,
                     app_client |-> client_info.UserPoolClient.ClientName,
                     auth_flows |-> auth_flows])

test_connection_log(client_info) ==
    IF "ADMIN_NO_SRP_AUTH" \notin Get(client_info.UserPoolClient, "ExplicitAuthFlows", {})
    THEN <<[level |-> "error", text |-> "ADMIN_NO_SRP_AUTH is NOT enabled in app client!"]>>
    ELSE <<>>

\* the username chain stops at preferred_username
get_current_user_return_short_chain(response) ==
    LET attrs == Get(response, "UserAttributes", <<>>)
        user == UserOut([email |-> Get(attrs, "email", <<>>),
                         username |-> Or(Get(attrs, "name", None),
                                         Get(attrs, "preferred_username", None)),
                         phone_number |-> Get(attrs, "phone_number", <<>>),
                         profile_image_url |-> Get(attrs, "custom:profile_image_url", <<>>),
                         is_active |-> TRUE,
                         email_verified |->
                             Lower(Get(attrs, "email_verified", False_))
                                 = <<"t", "r", "u", "e">>,
                         created_at |-> UtcNow,
                         updated_at |-> UtcNow])
    IN  IF user.ok THEN Return(user.value) ELSE Raise(user.exc)

get_current_user_return(response) ==
    LET attrs == Get(response, "UserAttributes", <<>>)
        username ==
            Or(Or(Get(attrs, "name", None), Get(attrs, "preferred_username", None)),
               SplitAt0(Get(attrs, "email", <<>>)))
        user == UserOut([email |-> Get(attrs, "email", <<>>),
                         username |-> username,
                         phone_number |-> Get(attrs, "phone_number", <<>>),
                         profile_image_url |-> Get(attrs, "custom:profile_image_url", <<>>),
                         is_active |-> TRUE,
                         email_verified |->
                             Lower(Get(attrs, "email_verified", False_))
                                 = <<"t", "r", "u", "e">>,
                         created_at |-> UtcNow,
                         updated_at |-> UtcNow])
    IN  IF user.ok THEN Return(user.value) ELSE Raise(user.exc)

get_all_return(response) ==
    LET listed == Get(response, "Users", <<>>)
        users == [i \in 1..Len(listed) |-> _map_user(listed[i])]
    IN  IF \E i \in 1..Len(users) : ~users[i].ok
        THEN Raise(users[CHOOSE i \in 1..Len(users) :
                            ~users[i].ok /\ \A j \in 1..(i - 1) : users[j].ok].exc)
        ELSE Return([users |-> [i \in 1..Len(users) |-> users[i].value],
                     next_token |-> Get(response, "PaginationToken", None)])

\* a user whose Enabled flag the provider omitted counts as disabled
get_by_username_return_default_disabled(response) ==
    LET user == [Username |-> response.Username,
                 Attributes |-> response.UserAttributes,
                 Enabled |-> Get(response, "Enabled", FALSE)]
        mapped == _map_user(user)
    IN  IF mapped.ok THEN Return(mapped.value) ELSE Raise(mapped.exc)

get_by_username_return(response) ==
    LET user == [Username |-> response.Username,
                 Attributes |-> response.UserAttributes,
                 Enabled |-> Get(response, "Enabled", TRUE)]
        mapped == _map_user(user)
    IN  IF mapped.ok THEN Return(mapped.value) ELSE Raise(mapped.exc)

\* the no-op path answers like a real update
update_noop_return_success == Return([message |-> "User updated successfully"])

update_noop_return == Return([message |-> "No attributes to update"])

update_return == Return([message |-> "User updated successfully"])

delete_return == Return([message |-> "User deleted successfully"])

-----------------------------------------------------------------------------
(* The except ClientError block of each operation *)

\* str(ClientError)
StrClientError(e, api) ==
    <<"An error occurred (", e.Code, ") when calling the ", api, " operation: ", e.Message>>

\* delete's except block passes the label of update
Context_delete_as_update(o) ==
    IF o = "list_users" THEN "get_all" ELSE IF o = "delete" THEN "update" ELSE o

Context(o) == IF o = "list_users" THEN "get_all" ELSE o

\* refresh_token's except block logs the failure and falls through, returning None
OnClientError_swallow(o, e, api) ==
    IF o = "test_connection"
    THEN [outcome |-> Return([status |-> "error", message |-> StrClientError(e, api),
                              code |-> e.Code]),
          passes |-> 0,
          log |-> <<[level |-> "error", text |-> "Connection test failed",
                     error |-> StrClientError(e, api)]>>]
    ELSE IF o = "refresh_token"
    THEN [outcome |-> Return(None), passes |-> 0, log |-> ErrorLog(e, Context(o))]
    ELSE [outcome |-> Raise(_handle_cognito_error(e, Context(o))),
          passes |-> 1,
          log |-> (IF o = "login"
                   THEN <<[level |-> "error", text |-> "Login failed"],
                          [level |-> "error", text |-> "Error code", code |-> e.Code],
                          [level |-> "error", text |-> "Error message",
                           message |-> e.Message]>>
                   ELSE <<>>)
                  \o ErrorLog(e, Context(o))]

OnClientError(o, e, api) ==
    IF o = "test_connection"
    THEN [outcome |-> Return([status |-> "error", message |-> StrClientError(e, api),
                              code |-> e.Code]),
          passes |-> 0,
          log |-> <<[level |-> "error", text |-> "Connection test failed",
                     error |-> StrClientError(e, api)]>>]
    ELSE [outcome |-> Raise(_handle_cognito_error(e, Context(o))),
          passes |-> 1,
          log |-> (IF o = "login"
                   THEN <<[level |-> "error", text |-> "Login failed"],
                          [level |-> "error", text |-> "Error code", code |-> e.Code],
                          [level |-> "error", text |-> "Error message",
                           message |-> e.Message]>>
                   ELSE <<>>)
                  \o ErrorLog(e, Context(o))]

\* the provider's possible answers to the call in flight
SuccessReplies(o, api) ==
    CASE o = "signup" -> DeliveryReplies
      [] o \in {"resend_confirmation_code", "forgot_password"} ->
            OptField("CodeDeliveryDetails", {CodeDelivery})
      [] o = "login" -> PasswordAuthReplies
      [] o = "refresh_token" -> RefreshAuthReplies
      [] o = "test_connection" /\ api = "describe_user_pool" -> DescribePoolReplies
      [] o = "test_connection" /\ api = "describe_user_pool_client" -> DescribeClientReplies
      [] o = "get_current_user" -> GetUserReplies
      [] o = "list_users" -> ListUsersReplies
      [] o = "get_by_username" -> AdminGetUserReplies
      [] OTHER -> {EmptyReply}

OnSuccess(o, a, rs) ==
    LET response == rs[Len(rs)].response
    IN  CASE o = "signup" -> signup_return(a.user_data, response)
          [] o = "confirm_email" -> confirm_email_return
          [] o = "resend_confirmation_code" -> resend_confirmation_code_return(response)
          [] o = "login" -> login_return(response)
          [] o = "logout" -> logout_return
          [] o = "refresh_token" -> refresh_token_return(response)
          [] o = "forgot_password" -> forgot_password_return(response)
          [] o = "confirm_forgot_password" -> confirm_forgot_password_return
          [] o = "test_connection" -> test_connection_return(rs[1].response, response)
          [] o = "get_current_user" -> get_current_user_return(response)
          [] o = "list_users" -> get_all_return(response)
          [] o = "get_by_username" -> get_by_username_return(response)
          [] o = "update" -> update_return
          [] o = "delete" -> delete_return

-----------------------------------------------------------------------------
(* The HTTP boundary: the routes of user_router, which call the broker on   *)
(* the module's one UserRepository, and the application's exception         *)
(* handlers.  The other operations of the broker have no route.             *)

NoResponse == [status_code |-> 0]

JsonableEncoder(data) == <<"json", data>>

JsonResponse(data, message, status_code) ==
    [status_code |-> status_code,
     content |-> [status |-> IF status_code < 400 THEN "success" ELSE "error",
                  message |-> message,
                  data |-> JsonableEncoder(data)]]

app_exception_handler(exc) ==
    [status_code |-> exc.status_code,
     content |-> [status |-> "error", message |-> exc.message],
     log |-> <<[level |-> "error", text |-> "request -> message",
                message |-> exc.message]>>]

\* puts the text of the failure in the response
general_exception_handler_str_exc(exc) ==
    [status_code |-> 500,
     content |-> [status |-> "error", message |-> <<"Internal Server Error: ", exc.type>>],
     log |-> <<[level |-> "error", text |-> "Unhandled error", error |-> exc]>>]

general_exception_handler(exc) ==
    [status_code |-> 500,
     content |-> [status |-> "error", message |-> <<"Internal Server Error">>],
     log |-> <<[level |-> "error", text |-> "Unhandled error", error |-> exc]>>]

\* FastAPI's own answer to a request whose parameters fail validation
request_validation_handler(exc) ==
    [status_code |-> 422, content |-> [detail |-> exc.field], log |-> <<>>]

Routed ==
    {"list_users", "get_by_username", "signup", "update", "delete", "confirm_email",
     "login", "logout"}

\* the route body once the broker has returned
RouteResponse(o, result) ==
    CASE o = "list_users" -> JsonResponse(result, "Users retrieved successfully", 200)
      [] o = "get_by_username" -> JsonResponse(result, "User retrieved successfully", 200)
      [] o = "signup" -> JsonResponse(result, "User created successfully", 200)
      [] o = "update" -> JsonResponse(result, "User updated successfully", 200)
      [] o = "delete" -> JsonResponse(result, "User deleted successfully", 200)
      [] o = "confirm_email" -> JsonResponse(result, result.message, 200)
      [] o = "login" -> JsonResponse(result, Get(result, "message", "Login successful"), 200)
      [] o = "logout" -> JsonResponse(None, result.message, 200)

\* the handler registered for the type of the exception that left the route
ExceptionResponse(exc) ==
    CASE exc.type = "AppException" -> app_exception_handler(exc)
      [] exc.type = "RequestValidationError" -> request_validation_handler(exc)
      [] OTHER -> general_exception_handler(exc)

\* the response to the request and the log entries of the handler that made it
Respond(o, result) ==
    IF o \notin Routed THEN [response |-> NoResponse, log |-> <<>>]
    ELSE IF result.kind = "return"
    THEN [response |-> RouteResponse(o, result.value), log |-> <<>>]
    ELSE LET handled == ExceptionResponse(result.exc)
         IN  [response |-> [status_code |-> handled.status_code,
                            content |-> handled.content],
              log |-> handled.log]

-----------------------------------------------------------------------------
(* The state machine: an invocation runs from its start to the provider    *)
(* call, blocks there, and resumes with the provider's answer.             *)

IdleFrame ==
    [pc |-> "idle", op |-> "none", args |-> <<>>, calls |-> <<>>, replies |-> <<>>,
     hashed |-> <<>>, normalized |-> 0, log |-> <<>>, outcome |-> Pending,
     http |-> NoResponse]

Init ==
    /\ client_id \in ClientIds
    /\ client_secret \in ClientSecrets
    /\ user_pool_id = PoolId
    /\ pc = "idle"
    /\ op = "none"
    /\ args = <<>>
    /\ calls = <<>>
    /\ replies = <<>>
    /\ hashed = <<>>
    /\ normalized = 0
    /\ log = <<>>
    /\ outcome = Pending
    /\ http = NoResponse
    /\ other = IdleFrame

\* every call resolves the client secret anew instead of using the one
\* resolved at construction
Begin_resolves_secret(o, a, call) ==
    /\ pc = "idle"
    /\ pc' = "calling"
    /\ op' = o
    /\ args' = a
    /\ calls' = <<[api |-> call.api, params |-> call.params]>>
    /\ hashed' = call.hashed
    /\ replies' = <<>>
    /\ normalized' = 0
    /\ log' = <<>>
    /\ outcome' = Pending
    /\ http' = NoResponse
    /\ client_secret' \in ClientSecrets
    /\ UNCHANGED <<client_id, user_pool_id, other>>

\* the operation builds its request and issues the provider call
Begin(o, a, call) ==
    /\ pc = "idle"
    /\ pc' = "calling"
    /\ op' = o
    /\ args' = a
    /\ calls' = <<[api |-> call.api, params |-> call.params]>>
    /\ hashed' = call.hashed
    /\ replies' = <<>>
    /\ normalized' = 0
    /\ log' = <<>>
    /\ outcome' = Pending
    /\ http' = NoResponse
    /\ UNCHANGED <<config, other>>

\* the operation ends without calling the provider
Immediate(o, a, hashed_, result) ==
    /\ pc = "idle"
    /\ pc' = "done"
    /\ op' = o
    /\ args' = a
    /\ calls' = <<>>
    /\ hashed' = hashed_
    /\ replies' = <<>>
    /\ normalized' = 0
    /\ log' = Respond(o, result).log
    /\ outcome' = result
    /\ http' = Respond(o, result).response
    /\ UNCHANGED <<config, other>>

GetSecretHash ==
    /\ pc = "idle"
    /\ \E username \in Usernames :
            Immediate("_get_secret_hash", [username |-> username], <<username>>,
                      Return(_get_secret_hash(username)))

Signup ==
    /\ pc = "idle"
    /\ \E user_data \in UserCreates :
            Begin("signup", [user_data |-> user_data], signup_call(user_data))

ConfirmEmail ==
    /\ pc = "idle"
    /\ \E email \in Emails, code \in ConfirmationCodes :
            Begin("confirm_email", [email |-> email, code |-> code],
                  confirm_email_call(email, code))

ResendConfirmationCode ==
    /\ pc = "idle"
    /\ \E email \in Emails :
            Begin("resend_confirmation_code", [email |-> email],
                  resend_confirmation_code_call(email))

Login ==
    /\ pc = "idle"
    /\ \E username \in Usernames :
            Begin("login", [username |-> username, password |-> Password],
                  login_call(username, Password))

Logout ==
    /\ pc = "idle"
    /\ \E access_token \in AccessTokens :
            Begin("logout", [access_token |-> access_token], logout_call(access_token))

RefreshToken ==
    /\ pc = "idle"
    /\ \E refresh_token \in RefreshTokens :
            Begin("refresh_token", [refresh_token |-> refresh_token],
                  refresh_token_call(refresh_token))

ForgotPassword ==
    /\ pc = "idle"
    /\ \E email \in Emails :
            Begin("forgot_password", [email |-> email], forgot_password_call(email))

ConfirmForgotPassword ==
    /\ pc = "idle"
    /\ \E email \in Emails, code \in ConfirmationCodes :
            Begin("confirm_forgot_password",
                  [email |-> email, code |-> code, new_password |-> Password],
                  confirm_forgot_password_call(email, code, Password))

TestConnection ==
    /\ pc = "idle"
    /\ Begin("test_connection", <<>>, describe_user_pool_call)

GetCurrentUser ==
    /\ pc = "idle"
    /\ \E access_token \in AccessTokens :
            Begin("get_current_user", [access_token |-> access_token],
                  get_current_user_call(access_token))

\* the bound is exclusive
QueryLimitOk_lt(limit) == limit < LimitCap

\* Query(20, le=60)
QueryLimitOk(limit) == limit <= LimitCap

\* GET /users/: limit: int = Query(20, le=60), token: str | None = None
ListUsers ==
    /\ pc = "idle"
    /\ \E query \in ListQueries :
            LET limit == Get(query, "limit", DefaultLimit)
                token == Get(query, "token", None)
            IN  IF QueryLimitOk(limit)
                THEN Begin("list_users", [query |-> query], get_all_call(limit, token))
                ELSE Immediate("list_users", [query |-> query], <<>>,
                               Raise([type |-> "RequestValidationError", field |-> "limit"]))

GetByUsername ==
    /\ pc = "idle"
    /\ \E username \in Usernames :
            Begin("get_by_username", [username |-> username], get_by_username_call(username))

Update ==
    /\ pc = "idle"
    /\ \E username \in Usernames, user_data \in UserUpdates :
            LET call == update_call(username, user_data)
                a == [username |-> username, user_data |-> user_data]
            IN  IF call.params.UserAttributes = <<>>
                THEN Immediate("update", a, <<>>, update_noop_return)
                ELSE Begin("update", a, call)

Delete ==
    /\ pc = "idle"
    /\ \E username \in Usernames :
            Begin("delete", [username |-> username], delete_call(username))

\* the provider call in flight fails with a ClientError
ProviderRaises ==
    /\ pc = "calling"
    /\ \E e \in ClientErrors :
        LET handled == OnClientError(op, e, calls[Len(calls)].api)
        IN  /\ replies' = Append(replies, [ok |-> FALSE, error |-> e])
            /\ normalized' = normalized + handled.passes
            /\ log' = log \o handled.log \o Respond(op, handled.outcome).log
            /\ outcome' = handled.outcome
            /\ http' = Respond(op, handled.outcome).response
    /\ pc' = "done"
    /\ UNCHANGED <<config, other, op, args, calls, hashed>>

\* test_connection: the pool was described, the app client is described next
TestConnectionContinues ==
    /\ pc = "calling"
    /\ op = "test_connection"
    /\ Len(calls) = 1
    /\ \E r \in SuccessReplies(op, calls[1].api) :
        replies' = Append(replies, [ok |-> TRUE, response |-> r])
    /\ calls' = Append(calls, [api |-> describe_user_pool_client_call.api,
                               params |-> describe_user_pool_client_call.params])
    /\ UNCHANGED <<config, other, pc, op, args, hashed, normalized, log, outcome, http>>

\* the provider call in flight succeeds and the operation returns
ProviderReturns ==
    /\ pc = "calling"
    /\ ~(op = "test_connection" /\ Len(calls) = 1)
    /\ \E r \in SuccessReplies(op, calls[Len(calls)].api) :
        /\ replies' = Append(replies, [ok |-> TRUE, response |-> r])
        /\ outcome' = OnSuccess(op, args, replies')
        /\ http' = Respond(op, outcome').response
        /\ log' = log \o (IF op = "test_connection" THEN test_connection_log(r) ELSE <<>>)
                      \o Respond(op, outcome').log
    /\ pc' = "done"
    /\ UNCHANGED <<config, other, op, args, calls, hashed, normalized>>

\* the result reaches the caller and the invocation's frame is gone: the
\* broker keeps nothing of it but its configuration
Finish ==
    /\ pc = "done"
    /\ pc' = "idle"
    /\ op' = "none"
    /\ args' = <<>>
    /\ calls' = <<>>
    /\ replies' = <<>>
    /\ hashed' = <<>>
    /\ normalized' = 0
    /\ log' = <<>>
    /\ outcome' = Pending
    /\ http' = NoResponse
    /\ UNCHANGED <<config, other>>

Next ==
    \/ GetSecretHash
    \/ Signup
    \/ ConfirmEmail
    \/ ResendConfirmationCode
    \/ Login
    \/ Logout
    \/ RefreshToken
    \/ ForgotPassword
    \/ ConfirmForgotPassword
    \/ TestConnection
    \/ GetCurrentUser
    \/ ListUsers
    \/ GetByUsername
    \/ Update
    \/ Delete
    \/ ProviderRaises
    \/ TestConnectionContinues
    \/ ProviderReturns
    \/ Finish

Spec == Init /\ [][Next]_vars

-----------------------------------------------------------------------------
(* Two request threads on the one shared broker.  A route is a plain def,   *)
(* so the framework runs requests on worker threads; the locals of a call   *)
(* live in its thread's frame, the configuration in the shared instance.    *)

Frame ==
    [pc |-> pc, op |-> op, args |-> args, calls |-> calls, replies |-> replies,
     hashed |-> hashed, normalized |-> normalized, log |-> log, outcome |-> outcome,
     http |-> http]

\* the scheduler suspends the running thread and resumes the other one
Switch ==
    /\ other' = Frame
    /\ pc' = other.pc
    /\ op' = other.op
    /\ args' = other.args
    /\ calls' = other.calls
    /\ replies' = other.replies
    /\ hashed' = other.hashed
    /\ normalized' = other.normalized
    /\ log' = other.log
    /\ outcome' = other.outcome
    /\ http' = other.http
    /\ UNCHANGED config

NextConcurrent ==
    \/ GetSecretHash
    \/ Login
    \/ Logout
    \/ ForgotPassword
    \/ ProviderRaises
    \/ ProviderReturns
    \/ Finish
    \/ Switch

SpecConcurrent == Init /\ [][NextConcurrent]_vars

-----------------------------------------------------------------------------
(* Properties *)

Done == pc = "done"

\* the invocation's provider call failed
Failed == replies # <<>> /\ ~replies[Len(replies)].ok

LastError == replies[Len(replies)].error

BrokerOps ==
    {"signup", "confirm_email", "resend_confirmation_code", "login", "logout",
     "refresh_token", "forgot_password", "confirm_forgot_password", "test_connection",
     "get_current_user", "list_users", "get_by_username", "update", "delete"}

\* the mapping table of the error normaliser, provider code -> status
StatusTable ==
    [c \in KnownCodes |->
        CASE c = "UsernameExistsException" -> 409
          [] c = "UserNotFoundException" -> 404
          [] c = "UserNotConfirmedException" -> 403
          [] c = "NotAuthorizedException" -> 401
          [] c = "InvalidParameterException" -> 400
          [] c = "CodeMismatchException" -> 400
          [] c = "ExpiredCodeException" -> 400
          [] c = "TooManyFailedAttemptsException" -> 429
          [] c = "TooManyRequestsException" -> 429
          [] c = "LimitExceededException" -> 429
          [] c = "ResourceNotFoundException" -> 404]

ExpectedStatus(code) == IF code \in KnownCodes THEN StatusTable[code] ELSE 500

\* C1: whenever the error normaliser has run on a provider error, the invocation
\* ends in an AppException whose status is the table's status for the error's
\* code, and 500 for a code outside the table; it never yields a return value.
C1_NormalizerTable ==
    (Done /\ normalized >= 1) =>
        /\ Failed
        /\ IsAppException(outcome)
        /\ outcome.exc.status_code = ExpectedStatus(LastError.Code)

\* an unknown code has fallen through to 500
C1_Witness ==
    /\ Done /\ normalized = 1 /\ Failed
    /\ LastError.Code = "InvalidPasswordException"
    /\ IsAppException(outcome)
    /\ outcome.exc.status_code = 500

\* C2 as stated: every operation whose provider call failed ends by raising the
\* AppException of exactly one pass through the normaliser.
C2_EveryFailureRaises ==
    (Done /\ Failed) =>
        /\ IsAppException(outcome)
        /\ normalized = 1

\* C2 amended: every operation other than test_connection whose provider call
\* failed ends by raising the AppException that one pass through the normaliser
\* gives for that error; test_connection returns an error-status result and
\* never enters the normaliser.
C2_FailureRaisesExceptTestConnection ==
    (Done /\ Failed) =>
        IF op = "test_connection"
        THEN /\ outcome.kind = "return"
             /\ outcome.value.status = "error"
             /\ outcome.value.code = LastError.Code
             /\ normalized = 0
        ELSE /\ IsAppException(outcome)
             /\ normalized = 1
             /\ outcome.exc.status_code = ExpectedStatus(LastError.Code)

\* login on an unconfirmed account has raised 403
C2_Witness ==
    /\ Done /\ Failed /\ op = "login"
    /\ LastError.Code = "UserNotConfirmedException"
    /\ IsAppException(outcome)
    /\ outcome.exc.status_code = 403
    /\ normalized = 1

HasSecretHash(call) ==
    \/ "SecretHash" \in DOMAIN call.params
    \/ /\ "AuthParameters" \in DOMAIN call.params
       /\ "SECRET_HASH" \in DOMAIN call.params.AuthParameters

\* C3: with the client secret absent or empty, _get_secret_hash returns None for
\* every username, and no provider request of any operation carries a
\* SecretHash / SECRET_HASH field.
C3_NoSecretNoHash ==
    ~Truthy(client_secret) =>
        /\ \A i \in 1..Len(calls) : ~HasSecretHash(calls[i])
        /\ (Done /\ op = "_get_secret_hash") => outcome.value = None

\* with the empty secret the helper has answered None
C3_Witness ==
    /\ client_secret = <<>>
    /\ Done /\ op = "_get_secret_hash"
    /\ outcome.value = None

HashOps ==
    {"signup", "confirm_email", "resend_confirmation_code", "login", "forgot_password",
     "confirm_forgot_password"}

RequestUsername(call) ==
    IF "AuthParameters" \in DOMAIN call.params
    THEN call.params.AuthParameters.USERNAME
    ELSE call.params.Username

RequestHash(call) ==
    IF "AuthParameters" \in DOMAIN call.params
    THEN call.params.AuthParameters.SECRET_HASH
    ELSE call.params.SecretHash

\* C4: with a client secret configured, the request of signup, confirm_email,
\* resend_confirmation_code, login, forgot_password and confirm_forgot_password
\* carries a secret hash, the helper was called once in that invocation, with
\* the username of the request, and the hash is the base64 of the HMAC-SHA256
\* keyed by the secret over that username followed by the client id.
C4_HashOfSubmittedUsername ==
    (Truthy(client_secret) /\ op \in HashOps /\ calls # <<>>) =>
        /\ HasSecretHash(calls[1])
        /\ hashed = <<RequestUsername(calls[1])>>
        /\ RequestHash(calls[1]) =
              B64Encode(HmacSha256(Utf8(client_secret),
                                   Utf8(RequestUsername(calls[1]) \o client_id)))

\* a login for a mixed-case username is in flight with its hash
C4_Witness ==
    /\ client_secret = <<"s">>
    /\ pc = "calling" /\ op = "login"
    /\ calls[1].params.AuthParameters.USERNAME = <<"A", "@", "b">>
    /\ HasSecretHash(calls[1])

\* C5: a refresh_token invocation never calls the hash helper and its request
\* carries no secret hash, with or without a client secret; what it returns has
\* no refresh_token field.
C5_RefreshWithoutHash ==
    op = "refresh_token" =>
        /\ hashed = <<>>
        /\ \A i \in 1..Len(calls) : ~HasSecretHash(calls[i])
        /\ (Done /\ outcome.kind = "return") => "refresh_token" \notin DOMAIN outcome.value

\* a secret is configured, the provider sent a new refresh token, and the
\* operation has returned
C5_Witness ==
    /\ client_secret = <<"s">>
    /\ Done /\ op = "refresh_token"
    /\ outcome.kind = "return"
    /\ "RefreshToken" \in DOMAIN replies[1].response.AuthenticationResult
    /\ ~HasSecretHash(calls[1])

MappedFields == {"username", "email", "phone_number", "profile_image_url"}

\* the fields of an UpdateRequest that hold a value
ValuedFields(user_data) ==
    {k \in DOMAIN user_data \cap MappedFields : user_data[k] # None}

\* the invocation reached the broker (the router did not reject the request)
Invoked == op \in BrokerOps /\ ~(outcome.kind = "raise" /\ outcome.exc.type = "RequestValidationError")

\* C6 as stated: every finished invocation of a broker operation has issued
\* exactly one provider call, none only for an update without attributes.
C6_ExactlyOneCall ==
    (Done /\ Invoked) =>
        \/ Len(calls) = 1
        \/ op = "update" /\ Len(calls) = 0

\* C6 amended: every operation other than test_connection issues exactly one
\* provider call, none only for an update in which no mapped field holds a
\* value; test_connection issues describe_user_pool and then, only after that
\* succeeded, describe_user_pool_client; a failed call is always the last call
\* of its invocation, so nothing is retried.
C6_OneCallNoRetry ==
    /\ Len(replies) <= Len(calls)
    /\ \A i \in 1..Len(replies) : ~replies[i].ok => i = Len(calls) /\ Done
    /\ (Invoked /\ op # "test_connection" /\ pc # "idle") =>
          IF op = "update" /\ ValuedFields(args.user_data) = {}
          THEN calls = <<>>
          ELSE Len(calls) = 1
    /\ op = "test_connection" =>
          /\ Len(calls) \in {1, 2}
          /\ calls[1].api = "describe_user_pool"
          /\ Len(calls) = 2 =>
                replies[1].ok /\ calls[2].api = "describe_user_pool_client"

\* a rate-limited call has ended its invocation with that single call
C6_Witness ==
    /\ Done /\ Failed /\ op = "login"
    /\ LastError.Code = "TooManyRequestsException"
    /\ Len(calls) = 1

\* C7: an update whose request has no field set issues no provider call and
\* returns the message "No attributes to update", not the message of a real
\* update.
C7_EmptyUpdateIsNoop ==
    (Done /\ op = "update" /\ DOMAIN args.user_data = {}) =>
        /\ calls = <<>>
        /\ outcome.kind = "return"
        /\ outcome.value.message = "No attributes to update"
        /\ outcome.value.message # "User updated successfully"

C7_Witness ==
    /\ Done /\ op = "update"
    /\ DOMAIN args.user_data = {}
    /\ calls = <<>>

AttributeNames(attributes) == {attributes[i].Name : i \in 1..Len(attributes)}

ProviderName(field) ==
    CASE field = "username" -> "name"
      [] field = "profile_image_url" -> "custom:profile_image_url"
      [] field = "email" -> "email"
      [] field = "phone_number" -> "phone_number"

\* C8 as stated: the attributes an update sends are exactly the fields the
\* caller set, each under its provider name.
C8_SendsExactlySetFields ==
    (op = "update" /\ calls # <<>>) =>
        AttributeNames(calls[1].params.UserAttributes)
            = {ProviderName(k) : k \in DOMAIN args.user_data \cap MappedFields}

\* C8 amended: the attributes an update sends are exactly the fields the caller
\* set to a value other than null, each once, under its provider name and with
\* the value given; a field not set, or set to null, is not sent, and no
\* other attribute name is sent.
C8_SendsExactlyValuedFields ==
    (op = "update" /\ calls # <<>>) =>
        LET sent == calls[1].params.UserAttributes
            user_data == args.user_data
        IN  /\ AttributeNames(sent) = {ProviderName(k) : k \in ValuedFields(user_data)}
            /\ Len(sent) = Cardinality(ValuedFields(user_data))
            /\ \A k \in ValuedFields(user_data) :
                  \E i \in 1..Len(sent) :
                      sent[i] = [Name |-> ProviderName(k), Value |-> user_data[k]]
            /\ AttributeNames(sent)
                  \subseteq {"name", "custom:profile_image_url", "email", "phone_number"}

\* an update that set username to a value and email to null is in flight, and
\* its request carries the name attribute alone
C8_Witness ==
    /\ op = "update" /\ pc = "calling"
    /\ "email" \in DOMAIN args.user_data
    /\ args.user_data.email = None
    /\ "username" \in DOMAIN args.user_data
    /\ AttributeNames(calls[1].params.UserAttributes) = {"name"}

\* C9: a list_users request with a limit above 60 is rejected with no provider
\* call; a limit of at most 60 is the Limit of the provider request, and a
\* request without a limit asks the provider for 20.
C9_LimitBound ==
    op = "list_users" =>
        LET query == args.query
        IN  IF "limit" \in DOMAIN query /\ query.limit > 60
            THEN /\ calls = <<>>
                 /\ outcome.kind = "raise"
                 /\ outcome.exc.type = "RequestValidationError"
            ELSE /\ calls # <<>>
                 /\ calls[1].api = "list_users"
                 /\ calls[1].params.Limit =
                        (IF "limit" \in DOMAIN query THEN query.limit ELSE 20)

\* limit=61 has been rejected
C9_Witness ==
    /\ Done /\ op = "list_users"
    /\ "limit" \in DOMAIN args.query
    /\ args.query.limit = 61
    /\ calls = <<>>
    /\ outcome.kind = "raise"

FirstNonEmpty(values) ==
    IF \E i \in 1..Len(values) : Truthy(values[i])
    THEN values[CHOOSE i \in 1..Len(values) :
                    Truthy(values[i]) /\ \A j \in 1..(i - 1) : ~Truthy(values[j])]
    ELSE <<>>

\* name, preferred_username, local part of email, internal identifier
UsernameByPriority(attrs, id) ==
    FirstNonEmpty(<<Get(attrs, "name", <<>>), Get(attrs, "preferred_username", <<>>),
                    SplitAt0(Get(attrs, "email", <<>>)), id>>)

\* C10: on get_current_user, get_by_username and list_users, every attribute
\* bag the provider answers with is mapped to a record whose username is the
\* first non-empty of name, preferred_username, local part of email, internal
\* identifier.
C10_UsernamePriority ==
    (Done /\ replies # <<>> /\ ~Failed) =>
        LET response == replies[1].response
        IN  CASE op = "get_current_user" \/ op = "get_by_username" ->
                   /\ outcome.kind = "return"
                   /\ outcome.value.username =
                          UsernameByPriority(response.UserAttributes, response.Username)
              [] op = "list_users" ->
                   /\ outcome.kind = "return"
                   /\ \A i \in 1..Len(response.Users) :
                          outcome.value.users[i].username =
                              UsernameByPriority(response.Users[i].Attributes,
                                                 response.Users[i].Username)
              [] OTHER -> TRUE

-----------------------------------------------------------------------------
(* The records of getCurrentUser, listUsers and getByUsername *)

Succeeded == Done /\ replies # <<>> /\ replies[Len(replies)].ok

LastResponse == replies[Len(replies)].response

SingleUserOps == {"get_current_user", "get_by_username"}

Returned == Succeeded /\ outcome.kind = "return"

\* the statement holds of every record returned, each against the attribute
\* bag of the provider user it was mapped from
EveryRecord(P(_, _)) ==
    /\ (Returned /\ op \in SingleUserOps) => P(outcome.value, LastResponse)
    /\ (Returned /\ op = "list_users") =>
            /\ Len(outcome.value.users) = Len(LastResponse.Users)
            /\ \A i \in 1..Len(LastResponse.Users) :
                    P(outcome.value.users[i],
                      [UserAttributes |-> LastResponse.Users[i].Attributes]
                          @@ LastResponse.Users[i])

NamedAndAddressed(record, user) ==
    /\ record.username \notin {None, <<>>}
    /\ "email" \in DOMAIN user.UserAttributes => record.email = user.UserAttributes.email

\* C11: every record returned by get_current_user, list_users and
\* get_by_username has a non-empty username, and when the provider returned an
\* email attribute the record's email is that attribute.
C11_UsernameAndEmail == EveryRecord(NamedAndAddressed)

\* get_current_user has returned a record for a user whose name attributes are
\* empty, named by the text before the "@" of the email
C11_Witness ==
    /\ Returned /\ op = "get_current_user"
    /\ "name" \notin DOMAIN LastResponse.UserAttributes
    /\ LastResponse.UserAttributes.preferred_username = <<>>
    /\ outcome.value.username = <<"a">>
    /\ outcome.value.email = <<"a", "@", "b">>

\* the text "true" in any mix of upper and lower case
IsTrueAnyCase(v) ==
    /\ Len(v) = 4
    /\ v[1] \in {"t", "T"}
    /\ v[2] \in {"r", "R"}
    /\ v[3] \in {"u", "U"}
    /\ v[4] \in {"e", "E"}

VerifiedAsAttribute(record, user) ==
    record.email_verified <=>
        /\ "email_verified" \in DOMAIN user.UserAttributes
        /\ IsTrueAnyCase(user.UserAttributes.email_verified)

\* C12: the email_verified flag of every record returned by get_current_user,
\* list_users and get_by_username is true exactly when the provider's
\* "email_verified" attribute is present and reads "true" in any letter case;
\* it is false when the attribute is absent or has any other value.
C12_EmailVerifiedFlag == EveryRecord(VerifiedAsAttribute)

\* get_by_username has returned a verified record for the attribute "True"
C12_Witness ==
    /\ Returned /\ op = "get_by_username"
    /\ "email_verified" \in DOMAIN LastResponse.UserAttributes
    /\ LastResponse.UserAttributes.email_verified = <<"T", "r", "u", "e">>
    /\ outcome.value.email_verified = TRUE

ActiveAsEnabled(record, user) ==
    record.is_active =
        (IF op = "get_current_user" \/ "Enabled" \notin DOMAIN user THEN TRUE
         ELSE user.Enabled)

\* C13: the is_active flag of a record returned by list_users and
\* get_by_username is the provider's Enabled flag when the provider supplied
\* one and true when it did not; a record of get_current_user is always active.
C13_ActiveFlag == EveryRecord(ActiveAsEnabled)

\* get_by_username has returned an inactive record for a disabled user
C13_Witness ==
    /\ Returned /\ op = "get_by_username"
    /\ "Enabled" \in DOMAIN LastResponse
    /\ LastResponse.Enabled = FALSE
    /\ outcome.value.is_active = FALSE

-----------------------------------------------------------------------------
(* signup *)

\* the text of a valid address before its "@"
LocalPart(email) ==
    SubSeq(email, 1, (CHOOSE i \in 1..Len(email) : email[i] = "@") - 1)

Supplied(v) == v \notin {None, <<>>}

SentAttributes(call) ==
    {<<call.params.UserAttributes[i].Name, call.params.UserAttributes[i].Value>> :
        i \in 1..Len(call.params.UserAttributes)}

\* C14: the sign_up request of signup carries the email, the name (the
\* submitted username when it is non-empty, otherwise the text before the "@"
\* of the email), the phone number only when one was submitted and the profile
\* image only when one was submitted, each once and nothing else; on success
\* the returned username is the value sent as name and the returned email is
\* the submitted email.
C14_SignupAttributes ==
    (op = "signup" /\ calls # <<>>) =>
        LET user_data == args.user_data
            name == IF Supplied(user_data.username) THEN user_data.username
                    ELSE LocalPart(user_data.email)
        IN  /\ SentAttributes(calls[1]) =
                    {<<"email", user_data.email>>, <<"name", name>>}
                    \cup (IF Supplied(user_data.phone_number)
                          THEN {<<"phone_number", user_data.phone_number>>} ELSE {})
                    \cup (IF Supplied(user_data.profile_image_url)
                          THEN {<<"custom:profile_image_url", user_data.profile_image_url>>}
                          ELSE {})
            /\ Len(calls[1].params.UserAttributes) = Cardinality(SentAttributes(calls[1]))
            /\ Returned =>
                    /\ outcome.value.username = name
                    /\ outcome.value.email = user_data.email

\* a signup with an empty username and a phone number has succeeded, named by
\* the text before the "@" of its email
C14_Witness ==
    /\ Returned /\ op = "signup"
    /\ args.user_data.username = <<>>
    /\ args.user_data.email = <<"b", "@", "a">>
    /\ <<"name", <<"b">>>> \in SentAttributes(calls[1])
    /\ <<"phone_number", <<"1">>>> \in SentAttributes(calls[1])
    /\ outcome.value.username = <<"b">>

-----------------------------------------------------------------------------
(* What an AppException tells the caller *)

\* the row of the normaliser's table a provider code falls in
TableRow(code) == IF code \in KnownCodes THEN code ELSE "default"

\* C15 as stated: the message of an AppException raised for a provider failure
\* contains neither the provider's code nor the provider's message text, and
\* any other provider failure of the same table row, differing in its code or
\* its message text, would have produced the same message.
C15_MessageIndependentOfProvider ==
    (Done /\ Failed /\ IsAppException(outcome)) =>
        /\ \A i \in 1..Len(outcome.exc.message) :
                outcome.exc.message[i] \notin {LastError.Code, LastError.Message}
        /\ \A e \in ClientErrors :
                TableRow(e.Code) = TableRow(LastError.Code) =>
                    _handle_cognito_error(e, Context(op)).message = outcome.exc.message

-----------------------------------------------------------------------------
(* Concurrent calls on the shared broker *)

\* the call the operation of a frame builds when it runs alone on the broker
AloneCall(f) ==
    CASE f.op = "login" -> login_call(f.args.username, f.args.password)
      [] f.op = "logout" -> logout_call(f.args.access_token)
      [] f.op = "forgot_password" -> forgot_password_call(f.args.email)

\* what the operation of a finished frame returns or raises when it runs alone
\* and the provider answers as it answered the frame
AloneOutcome(f) ==
    IF f.op = "_get_secret_hash" THEN Return(_get_secret_hash(f.args.username))
    ELSE IF f.replies[Len(f.replies)].ok THEN OnSuccess(f.op, f.args, f.replies)
    ELSE OnClientError(f.op, f.replies[Len(f.replies)].error,
                       f.calls[Len(f.calls)].api).outcome

SameAsAlone(f) ==
    /\ f.calls # <<>> =>
            /\ f.calls = <<[api |-> AloneCall(f).api, params |-> AloneCall(f).params]>>
            /\ f.hashed = AloneCall(f).hashed
    /\ f.pc = "done" => f.outcome = AloneOutcome(f)

\* C16: no step of any operation changes the broker's configuration (client
\* id, client secret, directory id), and under every interleaving of two
\* request threads on the shared broker the request each call sent, the
\* usernames it hashed and the result it ended with are those of the same
\* call running alone with the same provider answer.
C16_StatelessBroker ==
    /\ [](SameAsAlone(Frame) /\ SameAsAlone(other))
    /\ [][config' = config]_vars

\* one thread's login has failed while the other thread's login for another
\* username is still in flight, each request carrying its own secret hash
C16_Witness ==
    /\ Truthy(client_secret)
    /\ pc = "done" /\ op = "login" /\ Failed
    /\ other.pc = "calling" /\ other.op = "login"
    /\ other.args.username # args.username
    /\ RequestHash(other.calls[1]) # RequestHash(calls[1])

-----------------------------------------------------------------------------
(* The log of a normalised failure *)

\* the broker method an operation runs: the list route runs get_all
BrokerMethod(o) == IF o = "list_users" THEN "get_all" ELSE o

\* position i of the log holds the normaliser's two entries for the failure
NormaliserEntriesAt(i) ==
    /\ log[i] = [level |-> "error", context |-> BrokerMethod(op),
                 code |-> LastError.Code, message |-> LastError.Message]
    /\ log[i + 1] = [level |-> "error", full_response |-> LastError]

\* an entry written by the handler that answers a raised AppException
WrittenOnceRaised(entry) ==
    /\ "text" \in DOMAIN entry
    /\ entry.text = "request -> message"

\* C17: when an operation has raised an AppException for a provider failure,
\* its log holds two consecutive error-severity entries of the normaliser, the
\* first with the failed operation's own label, the provider's code and the
\* provider's message, the second with the full raw response, and both stand
\* before any entry written once the exception was raised.
C17_LoggedBeforeRaise ==
    (Done /\ Failed /\ IsAppException(outcome)) =>
        \E i \in 1..(Len(log) - 1) :
            /\ NormaliserEntriesAt(i)
            /\ \A j \in 1..Len(log) : WrittenOnceRaised(log[j]) => j > i + 1

\* delete has failed and its failure is logged under the label "delete",
\* ahead of the entry of the exception handler
C17_Witness ==
    /\ Done /\ Failed /\ op = "delete"
    /\ IsAppException(outcome)
    /\ LastError.Code = "UserNotFoundException"
    /\ Len(log) = 3
    /\ log[1].context = "delete"
    /\ log[2].full_response = LastError
    /\ WrittenOnceRaised(log[3])

-----------------------------------------------------------------------------
(* The attribute mapper on bags with absent keys *)

RecordOps == {"get_current_user", "list_users", "get_by_username"}

DefaultsForAbsent(record, user) ==
    LET attrs == user.UserAttributes
    IN  /\ "email" \notin DOMAIN attrs => record.email = <<>>
        /\ "phone_number" \notin DOMAIN attrs => record.phone_number = <<>>
        /\ "custom:profile_image_url" \notin DOMAIN attrs => record.profile_image_url = <<>>
        /\ "email_verified" \notin DOMAIN attrs => record.email_verified = FALSE

\* C18 as stated: whatever attribute bag the provider answers with, a bag
\* without an email included, get_current_user, list_users and
\* get_by_username return records, in which an absent email, phone number or
\* image is the empty text and an absent email_verified is false; mapping
\* raises nothing.
C18_MapperNeverFails ==
    (Succeeded /\ op \in RecordOps) =>
        /\ outcome.kind = "return"
        /\ EveryRecord(DefaultsForAbsent)

-----------------------------------------------------------------------------
(* Failures at the HTTP boundary *)

\* the exception left the broker operation the route called; a request whose
\* parameters fail validation never reaches the route
RaisedByOperation ==
    /\ Done /\ op \in Routed
    /\ outcome.kind = "raise"
    /\ outcome.exc.type # "RequestValidationError"

\* C19: a route whose broker operation raised an AppException answers with
\* the exception's status code and the body {status: "error", message: the
\* exception's message}; a route whose operation raised anything else answers
\* 500 with the body {status: "error", message: "Internal Server Error"},
\* whatever the failure was.
C19_ErrorEnvelope ==
    RaisedByOperation =>
        IF IsAppException(outcome)
        THEN http = [status_code |-> outcome.exc.status_code,
                     content |-> [status |-> "error", message |-> outcome.exc.message]]
        ELSE http = [status_code |-> 500,
                     content |-> [status |-> "error",
                                  message |-> <<"Internal Server Error">>]]

\* the login route has answered 500 to the KeyError of a challenge reply
C19_Witness ==
    /\ RaisedByOperation /\ op = "login"
    /\ outcome.exc = KeyError("AuthenticationResult")
    /\ http.status_code = 500
    /\ http.content.message = <<"Internal Server Error">>
====
